---- MODULE Spec2Model ----
(***************************************************************************)
(* Model of the ACT Marketplace agent module (src/index.ts): the           *)
(* idempotency store, the catch-up scan of past assignment events, the     *)
(* live event listeners, processTaskAssignment and submitResultWithRetry.  *)
(* The program is a single-threaded event loop: every action below is one  *)
(* run-to-completion step between two awaits (or a timer callback), and    *)
(* the ledger (the marketplace contract behind the RPC provider), process  *)
(* crashes and RPC failures are the environment.                           *)
(***************************************************************************)
EXTENDS Integers, Sequences, FiniteSets, TLC

\* ------------------------------ bounds ---------------------------------
MaxHeight == 2
NumTasks == 2
MaxEvents == 2
MaxCrashes == 1

\* ------------------------- program constants ---------------------------
MAX_RETRIES == 3
ASSIGNED == 2
\* the other task states of the contract: any value different from ASSIGNED
CREATED == ASSIGNED - 1
SUBMITTED == ASSIGNED + 1

Tasks == 1..NumTasks
LogIndexes == 0..1
Kinds == {"AssignTaskByClient", "AssignTaskByAgent"}
\* odd task ids are assigned by their client, even ones by the agent itself
KindOf(t) == IF t % 2 = 1 THEN "AssignTaskByClient" ELSE "AssignTaskByAgent"

\* ---------------------------- addresses --------------------------------
\* The ledger returns checksummed (mixed-case) addresses, the configuration
\* holds the agent address as the operator typed it.
agentAddress == "0xab"
SelfOnLedger == "0xAB"
OtherOnLedger == "0xCD"
NoAddress == "0x00"

toLowerCase(a) ==
  CASE a = "0xAB" -> "0xab"
    [] a = "0xCD" -> "0xcd"
    [] OTHER -> a

\* ------------------------------ topics ---------------------------------
topicHandlers == {"social_twitter", "social_instagram", "social_tiktok", "social_linkedin"}

\* bytes32 topic identifiers as stored on the ledger
TopicBytes == {"b32:social_twitter", "b32:unknown_topic", "b32:raw"}

\* ethers.utils.parseBytes32String: throws when the bytes are not a
\* null-terminated string; the caller then falls back to the raw bytes.
parseBytes32String(b) ==
  CASE b = "b32:social_twitter" -> "social_twitter"
    [] b = "b32:unknown_topic" -> "unknown_topic"
    [] OTHER -> "throws"

topicName(b) == IF parseBytes32String(b) = "throws" THEN b ELSE parseBytes32String(b)

\* the topics a task can carry: task 1 is a twitter task, the others any topic
TopicsOf(t) == IF t = 1 THEN {"b32:social_twitter"} ELSE {"b32:social_twitter", "b32:unknown_topic"}

\* ---------------------------- console lines ----------------------------
\* the lines processTaskAssignment prints when it returns, by outcome
SkippedLines == {"already processed", "not assigned to this agent", "not in ASSIGNED state",
                 "no handler"}
FailedLines == {"handler failed", "unexpected failure"}
CompletedLines == {"recorded as processed"}
\* the lines submitResultWithRetry prints when an attempt has resolved
SubmitLines == {"txn confirmed", "retrying", "failed after MAX_RETRIES attempts"}

\* ------------------------- BigNumber.toString --------------------------
Digits == <<"0", "1", "2", "3", "4", "5", "6", "7", "8", "9">>

RECURSIVE toString(_)
toString(n) == IF n < 10 THEN Digits[n + 1] ELSE toString(n \div 10) \o Digits[(n % 10) + 1]

\* --------------------------- sort comparator ---------------------------
\* (variant: the log index is not compared)
compare_BlockOnly(a, b) == a.blockNumber - b.blockNumber

\* (variant: operands swapped, newest first)
compare_Reversed(a, b) ==
  IF b.blockNumber - a.blockNumber # 0
  THEN b.blockNumber - a.blockNumber
  ELSE b.logIndex - a.logIndex

\* (a, b) => (a.blockNumber - b.blockNumber) || (a.logIndex - b.logIndex)
compare(a, b) ==
  IF a.blockNumber - b.blockNumber # 0
  THEN a.blockNumber - b.blockNumber
  ELSE a.logIndex - b.logIndex

\* Array.prototype.sort with that comparator (stable)
RECURSIVE insert(_, _)
insert(s, x) ==
  IF s = <<>> THEN <<x>>
  ELSE IF compare(x, Head(s)) < 0 THEN <<x>> \o s
  ELSE <<Head(s)>> \o insert(Tail(s), x)

RECURSIVE sort(_)
sort(s) == IF s = <<>> THEN <<>> ELSE insert(sort(SubSeq(s, 1, Len(s) - 1)), s[Len(s)])

\* ------------------------------- state ---------------------------------
VARIABLES
  cfg,      \* config.contractDeploymentBlock, config.lastProcessedBlock
  height,   \* ledger: number of the latest block
  log,      \* ledger: the assignment events for this agent, in append order
  task,     \* ledger: the task records
  file,     \* processedTasks.json
  store,    \* the in-memory store
  mainPc,   \* position of startModule / catchUpPastEvents
  cu,       \* locals of catchUpPastEvents
  procs,    \* per event: the processTaskAssignment invocation and its submit chain
  liveQ,    \* events emitted while the listeners are registered, callback not yet run
  out,      \* the console lines of the last step, as <<event, line>>
  handed,   \* history: the events whose processTaskAssignment call has returned
  crashes,  \* history: the crashes counted so far (counted under FairSpec only)
  boot,     \* history: the file as the running process read it at start-up
  wd        \* extendedtesting.ts: environment, contract and the withdrawClientTokens invocation

vars == <<cfg, height, log, task, file, store, mainPc, cu, procs, liveQ, out, handed, crashes, boot, wd>>

EventIds == 1..MaxEvents

NoFile == [kind |-> "missing", lastProcessedBlock |-> 0, processedTaskIds |-> <<>>]
NoStore == [lastProcessedBlock |-> 0, processedTaskIds |-> <<>>]
IdleProc == [pc |-> "idle", sub |-> "none", attempt |-> 0]
NoCu == [fromBlock |-> 0, latestBlock |-> 0, eventsClient |-> <<>>, allEvents |-> <<>>, idx |-> 0]

Range(s) == {s[i] : i \in DOMAIN s}

\* the plugin module as loaded with nothing configured, handler not called
NoWd == [PRIVATE_KEY |-> FALSE, PUBLIC_KEY |-> FALSE, readFns |-> {}, hasWithdraw |-> FALSE,
         pc |-> "idle", calls |-> <<>>, readOutcome |-> "none", error |-> ""]

\* The content of processedTasks.json, by the way the load takes it:
\*   "missing"  readFileSync throws
\*   "garbage"  JSON.parse throws, or yields null (the property read throws)
\*   "json"     an object with a number lastProcessedBlock and an array processedTaskIds
\*   "noBlock"  an object whose lastProcessedBlock is absent (undefined is falsy)
\*   "noIds"    an object whose processedTaskIds is absent or not an array
FileKinds == {"missing", "garbage", "json", "noBlock", "noIds"}

\* (variant: the list of processed ids is not taken from the file)
LoadStore_ForgetIds(f) ==
  [lastProcessedBlock |->
     IF f.kind \in {"json", "noIds"} /\ f.lastProcessedBlock # 0
        /\ f.lastProcessedBlock > cfg.lastProcessedBlock
     THEN f.lastProcessedBlock ELSE cfg.lastProcessedBlock,
   processedTaskIds |-> <<>>]

\* (variant: any object is taken whole, whatever its fields are)
LoadStore_Whole(f) ==
  IF f.kind \in {"missing", "garbage"}
  THEN [lastProcessedBlock |-> cfg.lastProcessedBlock, processedTaskIds |-> <<>>]
  ELSE [lastProcessedBlock |-> f.lastProcessedBlock, processedTaskIds |-> f.processedTaskIds]

\* let store = { lastProcessedBlock: config.lastProcessedBlock, processedTaskIds: [] }
\* followed by the try { readFileSync; JSON.parse; ... } catch block
LoadStore(f) ==
  IF f.kind \in {"missing", "garbage"}
  THEN [lastProcessedBlock |-> cfg.lastProcessedBlock, processedTaskIds |-> <<>>]
  ELSE [lastProcessedBlock |->
          IF f.kind # "noBlock" /\ f.lastProcessedBlock # 0
             /\ f.lastProcessedBlock > cfg.lastProcessedBlock
          THEN f.lastProcessedBlock ELSE cfg.lastProcessedBlock,
        processedTaskIds |-> IF f.kind # "noIds" THEN f.processedTaskIds ELSE <<>>]

\* (variant: only the list of ids is written, the block on file is kept)
saveStore_IdsOnly(s) == [kind |-> "json", lastProcessedBlock |-> file.lastProcessedBlock,
                         processedTaskIds |-> s.processedTaskIds]

\* fs.writeFileSync(storeFilePath, JSON.stringify(store, null, 2))
saveStore(s) == [kind |-> "json", lastProcessedBlock |-> s.lastProcessedBlock,
                 processedTaskIds |-> s.processedTaskIds]

\* (variant: the scan starts at the watermark itself)
fromBlockOf_Inclusive(s) ==
  IF s.lastProcessedBlock # 0 THEN s.lastProcessedBlock ELSE cfg.contractDeploymentBlock

\* (variant: the configured deployment block is not used)
fromBlockOf_NoDeployment(s) ==
  IF s.lastProcessedBlock # 0 THEN s.lastProcessedBlock + 1 ELSE 0

\* store.lastProcessedBlock ? store.lastProcessedBlock + 1 : (config.contractDeploymentBlock || 0)
fromBlockOf(s) ==
  IF s.lastProcessedBlock # 0 THEN s.lastProcessedBlock + 1 ELSE cfg.contractDeploymentBlock

\* contract.queryFilter(filter(kind, agent), fromBlock, toBlock): event ids in append order
queryFilter(kind, from, to) ==
  SelectSeq([i \in 1..Len(log) |-> i],
            LAMBDA e : log[e].kind = kind /\ log[e].blockNumber >= from /\ log[e].blockNumber <= to)

\* allEvents.sort(...) on the list of event ids
sortEvents(s) ==
  LET recs == sort([i \in 1..Len(s) |-> [id |-> s[i], blockNumber |-> log[s[i]].blockNumber,
                                          logIndex |-> log[s[i]].logIndex]])
  IN [i \in 1..Len(recs) |-> recs[i].id]

Init ==
  /\ cfg = [contractDeploymentBlock |-> 0, lastProcessedBlock |-> 0]
  /\ height = 0
  /\ log = <<>>
  /\ \E tp \in [Tasks -> TopicBytes] :
       /\ \A t \in Tasks : tp[t] \in TopicsOf(t)
       /\ task = [t \in Tasks |-> [assignedAgent |-> NoAddress, state |-> CREATED, topic |-> tp[t]]]
  /\ file = NoFile
  /\ store = NoStore
  /\ mainPc = "down"
  /\ cu = NoCu
  /\ procs = [e \in EventIds |-> IdleProc]
  /\ liveQ = {}
  /\ out = {}
  /\ handed = {}
  /\ crashes = 0
  /\ boot = NoFile
  /\ wd = NoWd

\* ============================ environment ==============================
\* A new block is appended to the ledger; it holds at most one assignment
\* event for this agent per log index.  An assignment event puts the task
\* in ASSIGNED state with this agent as assignedAgent.  Events emitted
\* while the listeners are registered are queued for their callback.
Mine ==
  /\ height < MaxHeight
  /\ \E S \in SUBSET LogIndexes : \E f \in [S -> Tasks] :
       LET idxs == SelectSeq([i \in 1..Cardinality(LogIndexes) |-> i - 1], LAMBDA i : i \in S)
           new == [k \in 1..Len(idxs) |->
                     [taskId |-> f[idxs[k]], kind |-> KindOf(f[idxs[k]]),
                      blockNumber |-> height + 1, logIndex |-> idxs[k]]]
       IN /\ Len(log) + Len(new) <= MaxEvents
          /\ \A i \in S : task[f[i]].state # SUBMITTED
          /\ log' = log \o new
          /\ task' = [t \in Tasks |->
                        IF \E i \in S : f[i] = t
                        THEN [task[t] EXCEPT !.assignedAgent = SelfOnLedger, !.state = ASSIGNED]
                        ELSE task[t]]
          /\ liveQ' = IF mainPc = "live" THEN liveQ \cup (Len(log) + 1)..(Len(log) + Len(new)) ELSE liveQ
  /\ height' = height + 1
  /\ out' = {}
  /\ UNCHANGED <<cfg, file, store, mainPc, cu, procs>>
  /\ UNCHANGED <<handed, crashes, boot, wd>>

\* The task is given to another agent (that event does not match the filter).
\* The program sees the ledger's task records only through getTask, so the
\* reassignment is taken when a getTask call for the task is in flight.
Reassign(t) ==
  /\ \E e \in 1..Len(log) : log[e].taskId = t /\ procs[e].pc = "getTask"
  /\ task[t].state = ASSIGNED
  /\ task[t].assignedAgent = SelfOnLedger
  /\ task' = [task EXCEPT ![t].assignedAgent = OtherOnLedger]
  /\ out' = {}
  /\ UNCHANGED <<cfg, height, log, file, store, mainPc, cu, procs, liveQ>>
  /\ UNCHANGED <<handed, crashes, boot, wd>>

\* What the contract requires of a submitTask transaction.
Acceptable(t) == task[t].state = ASSIGNED /\ task[t].assignedAgent = SelfOnLedger

\* A pending submitTask transaction is mined and accepted: ASSIGNED -> SUBMITTED.
LedgerAccept(e) ==
  /\ procs[e].sub = "pending"
  /\ Acceptable(log[e].taskId)
  /\ task' = [task EXCEPT ![log[e].taskId].state = SUBMITTED]
  /\ procs' = [procs EXCEPT ![e].sub = "ok"]
  /\ out' = {}
  /\ UNCHANGED <<cfg, height, log, file, store, mainPc, cu, liveQ>>
  /\ UNCHANGED <<handed, crashes, boot, wd>>

\* A pending submitTask transaction fails: reverted by the contract, or an
\* RPC / network error.
LedgerReject(e) ==
  /\ procs[e].sub = "pending"
  /\ procs' = [procs EXCEPT ![e].sub = "err"]
  /\ out' = {}
  /\ UNCHANGED <<cfg, height, log, task, file, store, mainPc, cu, liveQ>>
  /\ UNCHANGED <<handed, crashes, boot, wd>>

\* The process dies: everything in memory is lost, the file stays.
Crash ==
  /\ mainPc # "down"
  /\ mainPc' = "down"
  /\ store' = NoStore
  /\ cu' = NoCu
  /\ procs' = [e \in EventIds |-> IdleProc]
  /\ liveQ' = {}
  /\ out' = {}
  /\ boot' = NoFile
  /\ wd' = wd
  /\ UNCHANGED <<cfg, height, log, task, file>>
  /\ UNCHANGED <<handed, crashes>>

\* ======================= processTaskAssignment =========================
\* (variant: includes(taskId), a BigNumber compared with strings, never matches)
isProcessed_RawId(s, t) == FALSE

\* (variant: a task with a processing in flight counts as processed)
isProcessed_Locked(s, t) ==
  \/ toString(t) \in Range(s.processedTaskIds)
  \/ \E d \in 1..Len(log) : log[d].taskId = t /\ procs[d].pc \in {"getTask", "handler", "submit"}

\* store.processedTaskIds.includes(taskId.toString())
isProcessed(s, t) == toString(t) \in Range(s.processedTaskIds)

\* assignedAgent.toLowerCase() === config.agentAddress.toLowerCase()
assignedToUs(rec) == toLowerCase(rec.assignedAgent) = toLowerCase(agentAddress)

\* (variant: state >= 2)
inAssignedState_AtLeast(rec) == rec.state >= ASSIGNED

\* (variant: every state after creation passes)
inAssignedState_NotCreated(rec) == rec.state # CREATED

\* state === 2
inAssignedState(rec) == rec.state = ASSIGNED

\* (variant: a default handler is used when the topic has none)
hasHandler_Default(rec) == TRUE

\* topicHandlers[topicName] is defined
hasHandler(rec) == topicName(rec.topic) \in topicHandlers

\* The synchronous head of processTaskAssignment: the idempotency check,
\* then the call of contract.getTask.  ret is the pc of an invocation that
\* has returned: "returned" when catchUpPastEvents awaits it, "idle" for a
\* listener callback, which nobody awaits.
BeginProcess(e, ret) ==
  IF isProcessed(store, log[e].taskId)
  THEN /\ procs' = [procs EXCEPT ![e].pc = ret]
       /\ out' = {<<e, "already processed">>}
  ELSE /\ procs' = [procs EXCEPT ![e].pc = "getTask"]
       /\ out' = {}

\* the pc an invocation for event e takes when it returns
RetPc(e) == IF mainPc = "await" /\ cu.allEvents[cu.idx] = e THEN "returned" ELSE "idle"

\* contract.getTask resolves: validation, topic decoding, handler lookup,
\* and the call of the handler.
GetTaskReturn(e) ==
  /\ procs[e].pc = "getTask"
  /\ LET rec == task[log[e].taskId]
     IN IF ~assignedToUs(rec)
        THEN procs' = [procs EXCEPT ![e].pc = RetPc(e)] /\ out' = {<<e, "not assigned to this agent">>}
        ELSE IF ~inAssignedState(rec)
        THEN procs' = [procs EXCEPT ![e].pc = RetPc(e)] /\ out' = {<<e, "not in ASSIGNED state">>}
        ELSE IF ~hasHandler(rec)
        THEN procs' = [procs EXCEPT ![e].pc = RetPc(e)] /\ out' = {<<e, "no handler">>}
        ELSE procs' = [procs EXCEPT ![e].pc = "handler"] /\ out' = {}
  /\ UNCHANGED <<cfg, height, log, task, file, store, mainPc, cu, liveQ>>
  /\ handed' = IF procs'[e].pc = "handler" THEN handed ELSE handed \cup {e}
  /\ crashes' = crashes
  /\ boot' = boot
  /\ wd' = wd

\* (variant: no outer catch; the rejection reaches the caller, which for
\* catch-up is the catch block of catchUpPastEvents)
GetTaskThrows_Propagates(e) ==
  /\ procs[e].pc = "getTask"
  /\ procs' = [procs EXCEPT ![e].pc = "idle"]
  /\ IF RetPc(e) = "returned"
     THEN mainPc' = "live" /\ cu' = NoCu /\ out' = {<<0, "error during catch-up">>}
     ELSE mainPc' = mainPc /\ cu' = cu /\ out' = {<<e, "Task processing error">>}
  /\ UNCHANGED <<cfg, height, log, task, file, store, liveQ>>
  /\ handed' = handed \cup {e}
  /\ crashes' = crashes
  /\ boot' = boot
  /\ wd' = wd

\* (variant: the outer catch marks the task processed before it returns)
GetTaskThrows_Marks(e) ==
  /\ procs[e].pc = "getTask"
  /\ procs' = [procs EXCEPT ![e].pc = RetPc(e)]
  /\ out' = {<<e, "unexpected failure">>}
  /\ store' = [store EXCEPT !.processedTaskIds = Append(@, toString(log[e].taskId))]
  /\ file' = saveStore(store')
  /\ UNCHANGED <<cfg, height, log, task, mainPc, cu, liveQ>>
  /\ handed' = handed \cup {e}
  /\ crashes' = crashes
  /\ boot' = boot
  /\ wd' = wd

\* contract.getTask rejects: the outer catch logs and returns.
GetTaskThrows(e) ==
  /\ procs[e].pc = "getTask"
  /\ procs' = [procs EXCEPT ![e].pc = RetPc(e)]
  /\ out' = {<<e, "unexpected failure">>}
  /\ UNCHANGED <<cfg, height, log, task, file, store, mainPc, cu, liveQ>>
  /\ handed' = handed \cup {e}
  /\ crashes' = crashes
  /\ boot' = boot
  /\ wd' = wd

\* The handler resolves: submitResultWithRetry(taskId, resultString) is
\* called with attempt = 1 and calls contract.submitTask.
HandlerReturn(e) ==
  /\ procs[e].pc = "handler"
  /\ procs' = [procs EXCEPT ![e].pc = "submit", ![e].sub = "pending", ![e].attempt = 1]
  /\ out' = {}
  /\ UNCHANGED <<cfg, height, log, task, file, store, mainPc, cu, liveQ>>
  /\ UNCHANGED <<handed, crashes, boot, wd>>

\* (variant: the task is marked processed when its handler has thrown)
HandlerThrows_Marks(e) ==
  /\ procs[e].pc = "handler"
  /\ procs' = [procs EXCEPT ![e].pc = RetPc(e)]
  /\ out' = {<<e, "handler failed">>}
  /\ store' = [store EXCEPT !.processedTaskIds = Append(@, toString(log[e].taskId))]
  /\ file' = saveStore(store')
  /\ UNCHANGED <<cfg, height, log, task, mainPc, cu, liveQ>>
  /\ handed' = handed \cup {e}
  /\ crashes' = crashes
  /\ boot' = boot
  /\ wd' = wd

\* The handler throws: the inner catch logs and returns.
HandlerThrows(e) ==
  /\ procs[e].pc = "handler"
  /\ procs' = [procs EXCEPT ![e].pc = RetPc(e)]
  /\ out' = {<<e, "handler failed">>}
  /\ UNCHANGED <<cfg, height, log, task, file, store, mainPc, cu, liveQ>>
  /\ handed' = handed \cup {e}
  /\ crashes' = crashes
  /\ boot' = boot
  /\ wd' = wd

\* ======================== submitResultWithRetry ========================
\* (variant: attempt <= MAX_RETRIES)
afterAttempt_OneMore(sub, attempt) ==
  IF sub = "ok" THEN "txn confirmed"
  ELSE IF attempt <= MAX_RETRIES THEN "retrying"
  ELSE "failed after MAX_RETRIES attempts"

\* What an attempt that has resolved ("ok") or rejected ("err") leads to.
afterAttempt(sub, attempt) ==
  IF sub = "ok" THEN "txn confirmed"
  ELSE IF attempt < MAX_RETRIES THEN "retrying"
  ELSE "failed after MAX_RETRIES attempts"

\* Whether the promise of submitResultWithRetry resolves (rather than
\* rejects) once its attempt has resolved: the catch block swallows every
\* error, and the retry is started from a timer that nobody awaits.
submitResolves(sub, attempt) == TRUE

\* An attempt (submitTask and tx.wait) resolves or rejects.  A retry sets a
\* timer; otherwise the chain ends.  For the first attempt,
\* processTaskAssignment is awaiting: it goes on to push the task id and
\* save the store.
SubmitReturn(e) ==
  /\ procs[e].sub \in {"ok", "err"}
  /\ LET line == afterAttempt(procs[e].sub, procs[e].attempt)
         p == IF line = "retrying"
              THEN [procs[e] EXCEPT !.sub = "timer"]
              ELSE [procs[e] EXCEPT !.sub = "none", !.attempt = 0]
     IN IF procs[e].pc = "submit"
        THEN IF submitResolves(procs[e].sub, procs[e].attempt)
             THEN /\ store' = [store EXCEPT !.processedTaskIds = Append(@, toString(log[e].taskId))]
                  /\ file' = saveStore(store')
                  /\ procs' = [procs EXCEPT ![e] = [p EXCEPT !.pc = RetPc(e)]]
                  /\ out' = {<<e, line>>, <<e, "recorded as processed">>}
             ELSE /\ procs' = [procs EXCEPT ![e] = [p EXCEPT !.pc = RetPc(e)]]
                  /\ out' = {<<e, line>>, <<e, "unexpected failure">>}
                  /\ UNCHANGED <<store, file>>
        ELSE /\ procs' = [procs EXCEPT ![e] = p]
             /\ out' = {<<e, line>>}
             /\ UNCHANGED <<store, file>>
  /\ UNCHANGED <<cfg, height, log, task, mainPc, cu, liveQ>>
  /\ handed' = IF procs[e].pc = "submit" THEN handed \cup {e} ELSE handed
  /\ crashes' = crashes
  /\ boot' = boot
  /\ wd' = wd

\* The retry timer fires: submitResultWithRetry(taskId, result, attempt + 1).
TimerFire(e) ==
  /\ procs[e].sub = "timer"
  /\ procs' = [procs EXCEPT ![e].sub = "pending", ![e].attempt = @ + 1]
  /\ out' = {}
  /\ UNCHANGED <<cfg, height, log, task, file, store, mainPc, cu, liveQ>>
  /\ UNCHANGED <<handed, crashes, boot, wd>>

\* ================== startModule / catchUpPastEvents ====================
\* Module load (the store is read from the file), startModule and the head
\* of catchUpPastEvents up to the call of provider.getBlockNumber.
Start ==
  /\ mainPc = "down"
  /\ store' = LoadStore(file)
  /\ cu' = [NoCu EXCEPT !.fromBlock = fromBlockOf(LoadStore(file))]
  /\ mainPc' = "getBlockNumber"
  /\ out' = {}
  /\ boot' = file
  /\ wd' = wd
  /\ UNCHANGED <<cfg, height, log, task, file, procs, liveQ>>
  /\ UNCHANGED <<handed, crashes>>

\* getBlockNumber resolves: nothing to catch up (return, then
\* subscribeToEvents), or the first queryFilter is issued.
GetBlockNumberReturn ==
  /\ mainPc = "getBlockNumber"
  /\ IF height < cu.fromBlock
     THEN mainPc' = "live" /\ cu' = NoCu
     ELSE mainPc' = "queryClient" /\ cu' = [cu EXCEPT !.latestBlock = height]
  /\ out' = {}
  /\ UNCHANGED <<cfg, height, log, task, file, store, procs, liveQ>>
  /\ UNCHANGED <<handed, crashes, boot, wd>>

\* The AssignTaskByClient query resolves; the AssignTaskByAgent query is issued.
QueryClientReturn ==
  /\ mainPc = "queryClient"
  /\ cu' = [cu EXCEPT !.eventsClient = queryFilter("AssignTaskByClient", cu.fromBlock, cu.latestBlock)]
  /\ mainPc' = "queryAgent"
  /\ out' = {}
  /\ UNCHANGED <<cfg, height, log, task, file, store, procs, liveQ>>
  /\ UNCHANGED <<handed, crashes, boot, wd>>

\* The AssignTaskByAgent query resolves: concatenate and sort.
QueryAgentReturn ==
  /\ mainPc = "queryAgent"
  /\ cu' = [cu EXCEPT
              !.allEvents = sortEvents(cu.eventsClient \o
                              queryFilter("AssignTaskByAgent", cu.fromBlock, cu.latestBlock)),
              !.eventsClient = <<>>,
              !.idx = 1]
  /\ mainPc' = "loop"
  /\ out' = {}
  /\ UNCHANGED <<cfg, height, log, task, file, store, procs, liveQ>>
  /\ UNCHANGED <<handed, crashes, boot, wd>>

\* (variant: no catch in catchUpPastEvents; startModule rejects before
\* subscribeToEvents and the process is left without listeners)
RpcThrows_NoSubscribe ==
  /\ mainPc \in {"getBlockNumber", "queryClient", "queryAgent"}
  /\ mainPc' = "down"
  /\ cu' = NoCu
  /\ out' = {<<0, "Failed to start module">>}
  /\ UNCHANGED <<cfg, height, log, task, file, store, procs, liveQ>>
  /\ UNCHANGED <<handed, crashes, boot, wd>>

\* getBlockNumber or queryFilter rejects: the catch of catchUpPastEvents
\* logs, startModule goes on to subscribeToEvents.
RpcThrows ==
  /\ mainPc \in {"getBlockNumber", "queryClient", "queryAgent"}
  /\ mainPc' = "live"
  /\ cu' = NoCu
  /\ out' = {<<0, "error during catch-up">>}
  /\ UNCHANGED <<cfg, height, log, task, file, store, procs, liveQ>>
  /\ UNCHANGED <<handed, crashes, boot, wd>>

\* Head of a loop iteration: processTaskAssignment is called for the next
\* event and awaited.
LoopNext ==
  /\ mainPc = "loop"
  /\ cu.idx <= Len(cu.allEvents)
  /\ BeginProcess(cu.allEvents[cu.idx], "returned")
  /\ mainPc' = "await"
  /\ UNCHANGED <<cfg, height, log, task, file, store, cu, liveQ>>
  /\ handed' = IF procs'[cu.allEvents[cu.idx]].pc = "getTask" THEN handed ELSE handed \cup {cu.allEvents[cu.idx]}
  /\ crashes' = crashes
  /\ boot' = boot
  /\ wd' = wd

\* (variant: the watermark is advanced in memory only, saved after the loop)
LoopAdvance_NoSave ==
  /\ mainPc = "await"
  /\ procs[cu.allEvents[cu.idx]].pc = "returned"
  /\ procs' = [procs EXCEPT ![cu.allEvents[cu.idx]].pc = "idle"]
  /\ store' = [store EXCEPT !.lastProcessedBlock = log[cu.allEvents[cu.idx]].blockNumber]
  /\ cu' = [cu EXCEPT !.idx = @ + 1]
  /\ mainPc' = "loop"
  /\ out' = {}
  /\ UNCHANGED <<cfg, height, log, task, file, liveQ>>
  /\ UNCHANGED <<handed, crashes, boot, wd>>

\* processTaskAssignment has returned:
\* store.lastProcessedBlock = blockNumber; saveStore()
LoopAdvance ==
  /\ mainPc = "await"
  /\ procs[cu.allEvents[cu.idx]].pc = "returned"
  /\ procs' = [procs EXCEPT ![cu.allEvents[cu.idx]].pc = "idle"]
  /\ store' = [store EXCEPT !.lastProcessedBlock = log[cu.allEvents[cu.idx]].blockNumber]
  /\ file' = saveStore(store')
  /\ cu' = [cu EXCEPT !.idx = @ + 1]
  /\ mainPc' = "loop"
  /\ out' = {}
  /\ UNCHANGED <<cfg, height, log, task, liveQ>>
  /\ UNCHANGED <<handed, crashes, boot, wd>>

\* After the loop: store.lastProcessedBlock = latestBlock; saveStore();
\* catchUpPastEvents returns and subscribeToEvents registers the listeners.
LoopEnd ==
  /\ mainPc = "loop"
  /\ cu.idx > Len(cu.allEvents)
  /\ store' = [store EXCEPT !.lastProcessedBlock = cu.latestBlock]
  /\ file' = saveStore(store')
  /\ mainPc' = "live"
  /\ cu' = NoCu
  /\ out' = {<<0, "catch-up complete">>}
  /\ UNCHANGED <<cfg, height, log, task, procs, liveQ>>
  /\ UNCHANGED <<handed, crashes, boot, wd>>

\* ========================= subscribeToEvents ===========================
\* A listener callback runs: processTaskAssignment(taskId), not awaited.
\* (variant: the listener callback records the event's block as processed)
LiveDeliver_MovesWatermark(e) ==
  /\ mainPc = "live"
  /\ e \in liveQ
  /\ liveQ' = liveQ \ {e}
  /\ BeginProcess(e, "idle")
  /\ store' = [store EXCEPT !.lastProcessedBlock = log[e].blockNumber]
  /\ file' = saveStore(store')
  /\ UNCHANGED <<cfg, height, log, task, mainPc, cu>>
  /\ handed' = IF procs'[e].pc = "getTask" THEN handed ELSE handed \cup {e}
  /\ crashes' = crashes
  /\ boot' = boot
  /\ wd' = wd

\* contract.on(filter, callback): the callback of a queued event runs
LiveDeliver(e) ==
  /\ mainPc = "live"
  /\ e \in liveQ
  /\ liveQ' = liveQ \ {e}
  /\ BeginProcess(e, "idle")
  /\ UNCHANGED <<cfg, height, log, task, file, store, mainPc, cu>>
  /\ handed' = IF procs'[e].pc = "getTask" THEN handed ELSE handed \cup {e}
  /\ crashes' = crashes
  /\ boot' = boot
  /\ wd' = wd

\* ============================== system =================================
Next ==
  \/ Mine
  \/ \E t \in Tasks : Reassign(t)
  \/ \E e \in EventIds : LedgerAccept(e)
  \/ \E e \in EventIds : LedgerReject(e)
  \/ Crash
  \/ Start
  \/ GetBlockNumberReturn
  \/ QueryClientReturn
  \/ QueryAgentReturn
  \/ RpcThrows
  \/ LoopNext
  \/ LoopAdvance
  \/ LoopEnd
  \/ \E e \in EventIds : LiveDeliver(e)
  \/ \E e \in EventIds : GetTaskReturn(e)
  \/ \E e \in EventIds : GetTaskThrows(e)
  \/ \E e \in EventIds : HandlerReturn(e)
  \/ \E e \in EventIds : HandlerThrows(e)
  \/ \E e \in EventIds : SubmitReturn(e)
  \/ \E e \in EventIds : TimerFire(e)

Spec == Init /\ [][Next]_vars

\* The same system under the assumptions of the exactly-once guarantee:
\* the only failures are crashes, finitely many, and transient submission
\* failures (an acceptable transaction is refused on a first attempt at
\* most, a retry of it goes through); the event loop runs every callback
\* that is ready, pending transactions are decided, and a crashed process
\* is started again.
\* crashes are finitely many
CountedCrash ==
  /\ crashes < MaxCrashes
  /\ mainPc # "down"
  /\ mainPc' = "down"
  /\ store' = NoStore
  /\ cu' = NoCu
  /\ procs' = [e \in EventIds |-> IdleProc]
  /\ liveQ' = {}
  /\ out' = {}
  /\ crashes' = crashes + 1
  /\ boot' = NoFile
  /\ wd' = wd
  /\ UNCHANGED <<cfg, height, log, task, file, handed>>

TransientReject(e) ==
  /\ procs[e].sub = "pending"
  /\ procs[e].attempt = 1 \/ ~Acceptable(log[e].taskId)
  /\ LedgerReject(e)

ProgramStep ==
  \/ Start
  \/ GetBlockNumberReturn
  \/ QueryClientReturn
  \/ QueryAgentReturn
  \/ LoopNext
  \/ LoopAdvance
  \/ LoopEnd
  \/ \E e \in EventIds : LiveDeliver(e)
  \/ \E e \in EventIds : GetTaskReturn(e)
  \/ \E e \in EventIds : HandlerReturn(e)
  \/ \E e \in EventIds : SubmitReturn(e)
  \/ \E e \in EventIds : TimerFire(e)

LedgerDecides ==
  \E e \in EventIds :
    \/ LedgerAccept(e)
    \/ procs[e].sub = "pending" /\ ~Acceptable(log[e].taskId) /\ LedgerReject(e)

FairNext ==
  \/ Mine
  \/ \E t \in Tasks : Reassign(t)
  \/ \E e \in EventIds : LedgerAccept(e)
  \/ \E e \in EventIds : TransientReject(e)
  \/ CountedCrash
  \/ ProgramStep

FairSpec == Init /\ [][FairNext]_vars /\ WF_vars(ProgramStep) /\ WF_vars(LedgerDecides)

\* The start-up on its own: the process is started once, with any
\* configuration, any content of processedTasks.json and a ledger of any
\* height without assignment events, and runs until getBlockNumber has
\* resolved.
Configs == [contractDeploymentBlock : 0..MaxHeight, lastProcessedBlock : 0..MaxHeight]

IdLists == {<<>>, <<"1">>, <<"1", "2">>}

FileInputs ==
  {NoFile, [NoFile EXCEPT !.kind = "garbage"]}
  \cup {[kind |-> "json", lastProcessedBlock |-> b, processedTaskIds |-> ids] :
          b \in 0..MaxHeight, ids \in IdLists}
  \cup {[kind |-> "noBlock", lastProcessedBlock |-> 0, processedTaskIds |-> ids] : ids \in IdLists}
  \cup {[kind |-> "noIds", lastProcessedBlock |-> b, processedTaskIds |-> <<>>] : b \in 0..MaxHeight}

LoadInit ==
  /\ cfg \in Configs
  /\ file \in FileInputs
  /\ height \in 0..MaxHeight
  /\ log = <<>>
  /\ task = [t \in Tasks |-> [assignedAgent |-> NoAddress, state |-> CREATED,
                               topic |-> "b32:social_twitter"]]
  /\ store = NoStore
  /\ mainPc = "down"
  /\ cu = NoCu
  /\ procs = [e \in EventIds |-> IdleProc]
  /\ liveQ = {}
  /\ out = {}
  /\ handed = {}
  /\ crashes = 0
  /\ boot = NoFile
  /\ wd = NoWd

LoadNext == Start \/ GetBlockNumberReturn

LoadSpec == LoadInit /\ [][LoadNext]_vars


\* ============ extendedtesting.ts: the action withdrawClientTokens =======
\* wd.PRIVATE_KEY, wd.PUBLIC_KEY: the environment variable is set and not
\* empty.  wd.readFns, wd.hasWithdraw: the functions the contract object has
\* (typeof contract.f === "function"), given by the ABI of the package.
\* wd.calls: the ledger calls issued so far.  wd.readOutcome: what the
\* balance read gave.  wd.error: the message of the error the handler threw.
ReadFnOrder == <<"getBalance", "balanceOf", "balances">>

\* the value the balance read resolves with: a bigint, something whose
\* toString() is a decimal numeral, or undefined
ReadResults == {"0n", "5n", "0", "5", "undefined"}

NetworkError == "network error"
RevertNoTokens == "execution reverted: No tokens available"
\* the message of the error the balance read rejects with
ReadErrors == {NetworkError, RevertNoTokens}
TxErrors == {"transaction failed"}

NoKeyMsg == "Cannot withdraw: no private key (client account) configured."
NoTokensMsg == "No tokens available to withdraw."
NoSignerMsg == "Withdrawal failed: no signer configured."
NoFunctionMsg == "Contract does not have withdrawClientTokens function"
UndefinedMsg == "Cannot read properties of undefined (reading 'toString')"

WdInputs ==
  {[NoWd EXCEPT !.PRIVATE_KEY = k, !.PUBLIC_KEY = a, !.readFns = S, !.hasWithdraw = h] :
     k \in BOOLEAN, a \in BOOLEAN, S \in SUBSET Range(ReadFnOrder), h \in BOOLEAN}

\* const contractSigner = PRIVATE_KEY ? new ethers.Contract(..., new ethers.Wallet(...)) : null
contractSigner(w) == IF w.PRIVATE_KEY THEN "contract" ELSE "null"

\* the if / else if chain that picks the read function
firstReadFn(S) ==
  IF ReadFnOrder[1] \in S THEN ReadFnOrder[1]
  ELSE IF ReadFnOrder[2] \in S THEN ReadFnOrder[2]
  ELSE ReadFnOrder[3]

\* typeof bal === "bigint" ? bal : BigInt(bal.toString())
toBigInt(b) == IF b \in {"0n", "0"} THEN 0 ELSE 5

\* /No tokens available/.test(error.message)
matchesNoTokens(m) == m \in {NoTokensMsg, RevertNoTokens}

\* the handler throws
fail(w, m) == [w EXCEPT !.pc = "failed", !.error = m]

\* after the pre-check: the signer test, the function test and the call of
\* contractSigner.withdrawClientTokens()
submitStep(w) ==
  IF contractSigner(w) = "null" THEN fail(w, NoSignerMsg)
  ELSE IF ~w.hasWithdraw THEN fail(w, NoFunctionMsg)
  ELSE [w EXCEPT !.pc = "tx", !.calls = Append(@, "withdrawClientTokens")]

\* (variant: the catch of the pre-check rethrows every error)
onReadError_Rethrow(w, m) == fail(w, m)

\* the catch block of the pre-check
onReadError(w, m) == IF matchesNoTokens(m) THEN fail(w, m) ELSE submitStep(w)

\* the handler is called: the key test, then the balance read if the contract
\* has one of the three read functions
WithdrawCall ==
  /\ wd.pc = "idle"
  /\ wd' = IF ~wd.PRIVATE_KEY \/ ~wd.PUBLIC_KEY THEN fail(wd, NoKeyMsg)
           ELSE IF wd.readFns # {}
           THEN [wd EXCEPT !.pc = "read", !.calls = Append(@, firstReadFn(wd.readFns))]
           ELSE submitStep(wd)
  /\ UNCHANGED <<cfg, height, log, task, file, store, mainPc, cu, procs, liveQ, out>>
  /\ UNCHANGED <<handed, crashes, boot>>

\* the balance read resolves with b
ReadReturn(b) ==
  /\ wd.pc = "read"
  /\ LET w == [wd EXCEPT !.readOutcome = b]
     IN wd' = IF b = "undefined" THEN onReadError(w, UndefinedMsg)
              ELSE IF toBigInt(b) = 0 THEN onReadError(w, NoTokensMsg)
              ELSE submitStep(w)
  /\ UNCHANGED <<cfg, height, log, task, file, store, mainPc, cu, procs, liveQ, out>>
  /\ UNCHANGED <<handed, crashes, boot>>

\* the balance read rejects with an error of message m
ReadThrows(m) ==
  /\ wd.pc = "read"
  /\ wd' = onReadError([wd EXCEPT !.readOutcome = m], m)
  /\ UNCHANGED <<cfg, height, log, task, file, store, mainPc, cu, procs, liveQ, out>>
  /\ UNCHANGED <<handed, crashes, boot>>

\* contractSigner.withdrawClientTokens() resolves: the transaction is sent
TxReturn ==
  /\ wd.pc = "tx"
  /\ wd' = [wd EXCEPT !.pc = "wait", !.calls = Append(@, "wait")]
  /\ UNCHANGED <<cfg, height, log, task, file, store, mainPc, cu, procs, liveQ, out>>
  /\ UNCHANGED <<handed, crashes, boot>>

\* tx.wait() resolves: { txHash, status: "success", blockNumber }
WaitReturn ==
  /\ wd.pc = "wait"
  /\ wd' = [wd EXCEPT !.pc = "done"]
  /\ UNCHANGED <<cfg, height, log, task, file, store, mainPc, cu, procs, liveQ, out>>
  /\ UNCHANGED <<handed, crashes, boot>>

\* withdrawClientTokens() or tx.wait() rejects: logged and thrown again
TxThrows(m) ==
  /\ wd.pc \in {"tx", "wait"}
  /\ wd' = fail(wd, m)
  /\ UNCHANGED <<cfg, height, log, task, file, store, mainPc, cu, procs, liveQ, out>>
  /\ UNCHANGED <<handed, crashes, boot>>

WithdrawInit ==
  /\ cfg = [contractDeploymentBlock |-> 0, lastProcessedBlock |-> 0]
  /\ height = 0
  /\ log = <<>>
  /\ task = [t \in Tasks |-> [assignedAgent |-> NoAddress, state |-> CREATED,
                               topic |-> "b32:social_twitter"]]
  /\ file = NoFile
  /\ store = NoStore
  /\ mainPc = "down"
  /\ cu = NoCu
  /\ procs = [e \in EventIds |-> IdleProc]
  /\ liveQ = {}
  /\ out = {}
  /\ handed = {}
  /\ crashes = 0
  /\ boot = NoFile
  /\ wd \in WdInputs

WithdrawNext ==
  \/ WithdrawCall
  \/ \E b \in ReadResults : ReadReturn(b)
  \/ \E m \in ReadErrors : ReadThrows(m)
  \/ TxReturn
  \/ WaitReturn
  \/ \E m \in TxErrors : TxThrows(m)

WithdrawSpec == WithdrawInit /\ [][WithdrawNext]_vars

TypeOK ==
  /\ height \in 0..MaxHeight
  /\ Len(log) <= MaxEvents
  /\ mainPc \in {"down", "getBlockNumber", "queryClient", "queryAgent", "loop", "await", "live"}
  /\ \A e \in EventIds : procs[e].attempt \in 0..MAX_RETRIES

\* ============================== claims =================================
\* helpers of the formulas (independent of the definitions of the model)
InSet(ids, t) == \E i \in 1..Len(ids) : ids[i] = toString(t)
NotCrash == mainPc' # "down"
TaskOf(e) == log[e].taskId
Known(e) == e \in 1..Len(log)

\* the step hands event e to processTaskAssignment (callback or catch-up loop)
Delivery(e) ==
  \/ mainPc = "live" /\ mainPc' = "live" /\ e \in liveQ /\ e \notin liveQ'
  \/ mainPc = "loop" /\ mainPc' = "await" /\ cu.idx <= Len(cu.allEvents) /\ cu.allEvents[cu.idx] = e

\* C1: a task whose assignment event was delivered, that passed validation
\* and whose handler succeeded (its result is being submitted) has its
\* result accepted by the ledger eventually, as long as it stays assigned
\* to this agent, whatever crashes, restarts and transient submission
\* failures occur.  (The ledger accepts a task once: SUBMITTED is final.)
C1_EventuallyAccepted ==
  \A e \in EventIds :
    (e \in 1..Len(log) /\ procs[e].pc = "submit")
    ~> (e \in 1..Len(log) /\ (task[log[e].taskId].state = SUBMITTED
                                \/ task[log[e].taskId].assignedAgent # SelfOnLedger))

\* C2: every task id in the ProcessedSet, in memory or persisted, has had
\* a submitTask transaction accepted by the ledger before it was added.
C2_ProcessedOnlyAfterAcceptance ==
  \A t \in Tasks :
    (InSet(store.processedTaskIds, t) \/ InSet(file.processedTaskIds, t)) => task[t].state = SUBMITTED

\* C3: a delivery (callback or catch-up) for a task id that is already in
\* the ProcessedSet starts no getTask, no handler and no submitTask, and
\* leaves the store, in memory and on file, unchanged.
C3_Idempotent ==
  [][\A e \in EventIds :
       (Known(e) /\ Delivery(e) /\ InSet(store.processedTaskIds, TaskOf(e)))
       => /\ procs'[e].pc \in {"idle", "returned"}
          /\ procs'[e].sub = procs[e].sub /\ procs'[e].attempt = procs[e].attempt
          /\ \A d \in EventIds \ {e} : procs'[d] = procs[d]
          /\ out' = {<<e, "already processed">>}
          /\ store' = store /\ file' = file]_vars

C3_Witness ==
  \E e \in EventIds : Known(e) /\ <<e, "already processed">> \in out /\ mainPc = "live"
                      /\ InSet(store.processedTaskIds, TaskOf(e))

\* C4: one submit chain makes at most 3 submitTask attempts, numbered 1, 2,
\* 3; a failed attempt below 3 schedules exactly the next one, a failed
\* third attempt ends the chain, and a confirmed attempt ends the chain.
C4_RetryBound ==
  /\ [](\A e \in EventIds : procs[e].attempt <= 3)
  /\ [][\A e \in EventIds :
          /\ (procs[e].sub = "err" /\ procs'[e].sub # "err" /\ NotCrash)
             => IF procs[e].attempt < 3
                THEN procs'[e].sub = "timer" /\ procs'[e].attempt = procs[e].attempt
                ELSE procs[e].attempt = 3 /\ procs'[e].sub = "none"
                     /\ <<e, "failed after MAX_RETRIES attempts">> \in out'
          /\ (procs[e].sub = "timer" /\ procs'[e].sub # "timer" /\ NotCrash)
             => procs'[e].sub = "pending" /\ procs'[e].attempt = procs[e].attempt + 1
          /\ (procs[e].sub = "none" /\ procs'[e].sub # "none")
             => procs'[e].sub = "pending" /\ procs'[e].attempt = 1
          /\ (procs[e].sub = "ok" /\ procs'[e].sub # "ok") => procs'[e].sub = "none"]_vars

C4_Witness == \E e \in EventIds : <<e, "failed after MAX_RETRIES attempts">> \in out

\* C5: when submitTask has failed on all 3 attempts for a task (and no
\* submission of it was ever accepted), the task id is absent from the
\* ProcessedSet, in memory and persisted.
C5_ExhaustedNotProcessed ==
  \A e \in EventIds :
    (Known(e) /\ <<e, "failed after MAX_RETRIES attempts">> \in out /\ task[TaskOf(e)].state # SUBMITTED)
    => ~InSet(store.processedTaskIds, TaskOf(e)) /\ ~InSet(file.processedTaskIds, TaskOf(e))

\* C6: catch-up hands the events of both queries to processTaskAssignment
\* in ascending (blockNumber, logIndex) order, whatever the order of the
\* concatenated query results: allEvents holds exactly the events of the
\* scanned range, strictly ascending, and the loop walks it from the front,
\* one event at a time, going on only when the current one has returned.
Before(a, b) ==
  a.blockNumber < b.blockNumber \/ (a.blockNumber = b.blockNumber /\ a.logIndex < b.logIndex)

InScan == mainPc \in {"loop", "await"}

C6_Ordering ==
  /\ [](InScan =>
          /\ \A i, j \in 1..Len(cu.allEvents) :
               i < j => Before(log[cu.allEvents[i]], log[cu.allEvents[j]])
          /\ Range(cu.allEvents) =
               {e \in 1..Len(log) : log[e].blockNumber >= cu.fromBlock /\ log[e].blockNumber <= cu.latestBlock}
          /\ \A i \in 1..Len(cu.allEvents) : i < cu.idx => cu.allEvents[i] \in handed)
  /\ [][(InScan /\ InScan') =>
          /\ cu'.allEvents = cu.allEvents
          /\ \/ cu'.idx = cu.idx
             \/ cu'.idx = cu.idx + 1 /\ cu.allEvents[cu.idx] \in handed]_vars

\* the second event of a scan is in progress and sorting changed the order
\* in which the two queries returned the events
C6_Witness ==
  /\ mainPc = "await" /\ cu.idx = 2
  /\ cu.allEvents # queryFilter("AssignTaskByClient", cu.fromBlock, cu.latestBlock)
                      \o queryFilter("AssignTaskByAgent", cu.fromBlock, cu.latestBlock)

\* C7: the stored lastProcessedBlock never decreases: not on file over any
\* step, not in memory while the process runs, not by the load at start-up;
\* an advance requested with a block not above the current watermark
\* leaves the stored value as it was.
AdvanceTo(b) ==
  \/ mainPc = "await" /\ mainPc' = "loop" /\ b = log[cu.allEvents[cu.idx]].blockNumber
  \/ mainPc = "loop" /\ mainPc' = "live" /\ b = cu.latestBlock

C7_WatermarkMonotone ==
  [][/\ file'.lastProcessedBlock >= file.lastProcessedBlock
     /\ (mainPc # "down" /\ NotCrash) => store'.lastProcessedBlock >= store.lastProcessedBlock
     /\ (mainPc = "down" /\ mainPc' # "down") => store'.lastProcessedBlock >= file.lastProcessedBlock
     /\ \A b \in 0..(MaxHeight + 1) :
          (AdvanceTo(b) /\ b <= store.lastProcessedBlock)
          => /\ store'.lastProcessedBlock = store.lastProcessedBlock
             /\ file'.lastProcessedBlock = store.lastProcessedBlock]_vars

\* an advance to the block of the previous event (two events in one block)
\* has just been made, after the watermark had moved off its initial value
C7_Witness ==
  /\ mainPc = "loop" /\ cu.idx >= 3
  /\ log[cu.allEvents[cu.idx - 1]].blockNumber = log[cu.allEvents[cu.idx - 2]].blockNumber
  /\ file.lastProcessedBlock = log[cu.allEvents[cu.idx - 1]].blockNumber
  /\ file.lastProcessedBlock > 0

\* C8 (as stated): on every start-up, for every persisted lastProcessedBlock
\* W, 0 included, the scan queries only blocks above W and hands over no
\* event at or below W.
ScanStart == mainPc \in {"queryClient", "queryAgent"} \/ (mainPc = "loop" /\ cu.idx = 1)

C8_NoRescanAtOrBelowWatermark ==
  (ScanStart /\ file.kind = "json")
  => /\ cu.fromBlock > file.lastProcessedBlock
     /\ \A i \in 1..Len(cu.allEvents) : log[cu.allEvents[i]].blockNumber > file.lastProcessedBlock

\* C8 (amended): for every persisted lastProcessedBlock W > 0 the scan
\* queries only blocks above W and hands over no event at or below W; a
\* persisted 0, like a missing file, counts as unset: the scan then starts
\* after the configured last processed block, or at the configured
\* deployment block when that is 0 too.
C8_NoRescanBelowSetWatermark ==
  /\ (ScanStart /\ file.kind = "json" /\ file.lastProcessedBlock > 0)
     => /\ cu.fromBlock > file.lastProcessedBlock
        /\ \A i \in 1..Len(cu.allEvents) : log[cu.allEvents[i]].blockNumber > file.lastProcessedBlock
  /\ (ScanStart /\ file.lastProcessedBlock = 0)
     => cu.fromBlock = IF cfg.lastProcessedBlock # 0 THEN cfg.lastProcessedBlock + 1
                       ELSE cfg.contractDeploymentBlock

\* a scan after a restart with W > 0, an event at or below W on the ledger
\* and an event above W about to be handed over
C8_Witness ==
  /\ mainPc = "loop" /\ cu.idx = 1 /\ Len(cu.allEvents) >= 1
  /\ file.kind = "json" /\ file.lastProcessedBlock > 0
  /\ \E e \in 1..Len(log) : log[e].blockNumber <= file.lastProcessedBlock

\* C9: whenever the process is down or has finished catch-up, every
\* assignment event of the scanned range at or below the persisted
\* lastProcessedBlock has been handed to processTaskAssignment and that
\* call has returned.
C9_WatermarkCoversOnlyHandled ==
  (mainPc \in {"down", "live"} /\ file.kind = "json")
  => \A e \in 1..Len(log) :
       (log[e].blockNumber <= file.lastProcessedBlock /\ log[e].blockNumber >= cfg.contractDeploymentBlock)
       => e \in handed

\* C10: when getTask returns a task whose assignedAgent differs from the
\* agent address (compared in lower case) or whose state is not ASSIGNED,
\* the call returns as skipped: no handler, no submitTask, no change of the
\* store in memory or on file.
GateFails(rec) ==
  toLowerCase(rec.assignedAgent) # toLowerCase(agentAddress) \/ rec.state # ASSIGNED

C10_ValidationGate ==
  [][\A e \in EventIds :
       (/\ Known(e) /\ procs[e].pc = "getTask" /\ procs'[e].pc # "getTask" /\ NotCrash
        /\ <<e, "unexpected failure">> \notin out'
        /\ GateFails(task[TaskOf(e)]))
       => /\ procs'[e].pc \in {"idle", "returned"}
          /\ procs'[e].sub = "none"
          /\ out' # {} /\ out' \subseteq ({e} \X {"not assigned to this agent", "not in ASSIGNED state"})
          /\ e \in handed'
          /\ store' = store /\ file' = file]_vars

C10_Witness ==
  \E e \in EventIds : Known(e) /\ <<e, "not in ASSIGNED state">> \in out
                      /\ task[TaskOf(e)].assignedAgent = SelfOnLedger

\* C11: crash recovery.  A process that started with the persisted store
\* (W, P) and found the ledger at height H >= W + 1 scans exactly the blocks
\* above W up to H; it invokes no handler for a task of P; while it scans,
\* the ProcessedSet, in memory and on file, is P followed by tasks of the
\* events handed over so far, and it grows only by the task of an event
\* whose processing ends as completed ("recorded as processed"), and by
\* every such task; when the scan completes, the persisted watermark is H
\* and the persisted ProcessedSet is what the scan left.
IsPrefix(a, b) == Len(a) <= Len(b) /\ SubSeq(b, 1, Len(a)) = a

Restarted == boot.kind = "json"

\* catch-up runs in a process that started with a persisted store, and the
\* height it read is above the persisted watermark
Recovering == InScan /\ Restarted /\ cu.latestBlock >= boot.lastProcessedBlock + 1

NoHandlerFor(rec) == rec.topic \in {"b32:unknown_topic", "b32:raw"}

C13_HandlerFailureRetryable ==
  [][\A e \in EventIds :
       /\ (Known(e) /\ procs[e].pc = "handler" /\ procs'[e].pc \notin {"handler", "submit"} /\ NotCrash)
          => /\ procs'[e].pc \in {"idle", "returned"}
             /\ procs'[e].sub = "none" /\ procs'[e].attempt = 0
             /\ out' = {<<e, "handler failed">>}
             /\ e \in handed'
             /\ store' = store /\ file' = file
       /\ (Known(e) /\ Delivery(e) /\ ~InSet(store.processedTaskIds, TaskOf(e)))
          => procs'[e].pc = "getTask"
       /\ (/\ Known(e) /\ procs[e].pc = "getTask" /\ procs'[e].pc # "getTask" /\ NotCrash
           /\ <<e, "unexpected failure">> \notin out'
           /\ ~GateFails(task[TaskOf(e)]) /\ ~NoHandlerFor(task[TaskOf(e)]))
          => procs'[e].pc = "handler"]_vars

\* a handler has just failed while another event of the same task waits
\* for its callback, and the task is not in the ProcessedSet
C13_Witness ==
  \E e, d \in EventIds :
    /\ Known(e) /\ Known(d) /\ e # d /\ TaskOf(e) = TaskOf(d)
    /\ <<e, "handler failed">> \in out
    /\ d \in liveQ
    /\ ~InSet(store.processedTaskIds, TaskOf(e)) /\ ~InSet(file.processedTaskIds, TaskOf(e))

\* C14: no step inside the processing of a task (getTask, handler, submit
\* attempts and retries, whether they succeed or fail) stops the process,
\* leaves the catch-up loop, drops a queued listener callback or touches
\* the processing of another event; a processing that catch-up awaits ends
\* as returned, whatever its outcome, and catch-up then goes on with the
\* next event; a queued callback can always run while the listeners are
\* registered.
ProcStep(e) ==
  \/ procs[e].pc \in {"getTask", "handler", "submit"} /\ procs'[e] # procs[e]
  \/ procs'[e].sub # procs[e].sub
  \/ procs'[e].attempt # procs[e].attempt

C14_FailureIsolation ==
  /\ [][\A e \in EventIds :
          (Known(e) /\ ProcStep(e) /\ NotCrash)
          => /\ mainPc' = mainPc /\ cu' = cu /\ liveQ' = liveQ
             /\ \A d \in EventIds \ {e} : procs'[d] = procs[d]
             /\ (procs[e].pc \in {"getTask", "handler", "submit"}
                 /\ procs'[e].pc \notin {"getTask", "handler", "submit"})
                => procs'[e].pc = IF mainPc = "await" /\ cu.allEvents[cu.idx] = e
                                  THEN "returned" ELSE "idle"]_vars
  /\ [](mainPc = "await" => procs[cu.allEvents[cu.idx]].pc \in {"getTask", "handler", "submit", "returned"})
  /\ []((mainPc = "await" /\ procs[cu.allEvents[cu.idx]].pc = "returned") => ENABLED LoopAdvance)
  /\ [](\A e \in EventIds : (mainPc = "live" /\ e \in liveQ) => ENABLED LiveDeliver(e))

\* the processing of a catch-up event has just failed and the scan has a
\* next event to go on with
C14_Witness ==
  /\ mainPc = "await" /\ cu.idx < Len(cu.allEvents)
  /\ procs[cu.allEvents[cu.idx]].pc = "returned"
  /\ \E l \in FailedLines \cup {"retrying"} : <<cu.allEvents[cu.idx], l>> \in out

Started == mainPc = "getBlockNumber"

C17_PersistCriticalSection ==
  /\ []((mainPc # "down" /\ file.kind = "json") =>
          /\ file.lastProcessedBlock = store.lastProcessedBlock
          /\ file.processedTaskIds = store.processedTaskIds)
  /\ [][(mainPc # "down" /\ NotCrash /\ store' # store)
          => /\ file'.kind = "json"
             /\ file'.lastProcessedBlock = store'.lastProcessedBlock
             /\ file'.processedTaskIds = store'.processedTaskIds]_vars
  /\ [][(file' # file)
          => /\ mainPc # "down" /\ NotCrash
             /\ file'.lastProcessedBlock = store'.lastProcessedBlock
             /\ file'.processedTaskIds = store'.processedTaskIds]_vars
  /\ [][/\ IsPrefix(file.processedTaskIds, file'.processedTaskIds)
        /\ file'.lastProcessedBlock >= file.lastProcessedBlock]_vars

\* a task has just been recorded while the submit chain of another event
\* is still running, and the file holds the updates of both paths
C17_Witness ==
  \E e, d \in EventIds :
    /\ Known(e) /\ Known(d) /\ e # d
    /\ <<e, "recorded as processed">> \in out
    /\ procs[d].sub # "none"
    /\ Len(file.processedTaskIds) >= 2
    /\ file.lastProcessedBlock > 0

\* C18: there is no per-task lock.  Whether a delivery goes on to getTask
\* depends on the ProcessedSet alone, not on another processing of the same
\* task being in flight; issuing submitTask marks nothing; and a task id
\* enters the ProcessedSet only in the step in which a processing that was
\* waiting for its first submit attempt returns.  Hence the race of the
\* witness: two processings of one task, both past the check, both with a
\* submitTask in flight.
C18_NoPerTaskLock ==
  /\ [][\A e \in EventIds :
          (Known(e) /\ Delivery(e))
          => (procs'[e].pc = "getTask" <=> ~InSet(store.processedTaskIds, TaskOf(e)))]_vars
  /\ [][\A e \in EventIds :
          (Known(e) /\ procs[e].pc = "handler" /\ procs'[e].pc = "submit")
          => /\ procs'[e].sub = "pending" /\ procs'[e].attempt = 1
             /\ store' = store /\ file' = file]_vars
  /\ [][(mainPc # "down" /\ NotCrash /\ store'.processedTaskIds # store.processedTaskIds)
          => \E e \in EventIds :
               /\ Known(e) /\ procs[e].pc = "submit" /\ procs'[e].pc \in {"idle", "returned"}
               /\ store'.processedTaskIds = Append(store.processedTaskIds, toString(TaskOf(e)))]_vars

\* two events of one task: both passed the check, both handlers have run,
\* both first submitTask calls are in flight
C18_Witness ==
  \E e, d \in EventIds :
    /\ Known(e) /\ Known(d) /\ e # d /\ TaskOf(e) = TaskOf(d)
    /\ procs[e].pc = "submit" /\ procs[e].sub = "pending" /\ procs[e].attempt = 1
    /\ procs[d].pc = "submit" /\ procs[d].sub = "pending" /\ procs[d].attempt = 1
    /\ ~InSet(store.processedTaskIds, TaskOf(e))

\* C19: once processTaskAssignment has returned for an event, no submission
\* attempt of that processing is pending, resolved but not yet handled, or
\* scheduled on a timer.
C19_NothingPendingAfterReturn ==
  \A e \in EventIds :
    (Known(e) /\ procs[e].pc \in {"idle", "returned"}) => procs[e].sub = "none"

\* C20: in catch-up, the step that follows the return of
\* processTaskAssignment for an event writes that event's block number as
\* lastProcessedBlock to the file, and the file still holds it when the
\* next event is handed over; a start-up that finds a watermark W > 0 on
\* file scans from W + 1, so after a crash in the middle of catch-up the
\* next scan starts at the block after the last handled event.
C20_PerEventWatermark ==
  /\ []((mainPc = "loop" /\ cu.idx > 1) =>
          /\ file.kind = "json"
          /\ file.lastProcessedBlock = log[cu.allEvents[cu.idx - 1]].blockNumber
          /\ cu.allEvents[cu.idx - 1] \in handed)
  /\ [][(mainPc = "await" /\ mainPc' = "loop")
          => /\ cu.allEvents[cu.idx] \in handed
             /\ file'.kind = "json"
             /\ file'.lastProcessedBlock = log[cu.allEvents[cu.idx]].blockNumber
             /\ cu'.idx = cu.idx + 1]_vars
  /\ [][(mainPc = "down" /\ mainPc' # "down" /\ file.kind = "json" /\ file.lastProcessedBlock > 0)
          => cu'.fromBlock = file.lastProcessedBlock + 1]_vars

\* between two events of a scan: the first has been handled, the file holds
\* its block, which lies below the block of the second and below the end
\* of the range
C20_Witness ==
  /\ mainPc = "loop" /\ cu.idx = 2 /\ Len(cu.allEvents) >= 2
  /\ file.lastProcessedBlock = log[cu.allEvents[1]].blockNumber
  /\ file.lastProcessedBlock < log[cu.allEvents[2]].blockNumber
  /\ file.lastProcessedBlock > boot.lastProcessedBlock

\* C21: in catch-up, when the processing of an event has ended as failed
\* (handler failure or unexpected exception), the step that follows its
\* return leaves lastProcessedBlock as it was, in memory and on file.
C21_NoAdvanceOnFailure ==
  [][(/\ mainPc = "await" /\ mainPc' = "loop"
      /\ \E l \in FailedLines : <<cu.allEvents[cu.idx], l>> \in out)
     => /\ store'.lastProcessedBlock = store.lastProcessedBlock
        /\ file'.lastProcessedBlock = file.lastProcessedBlock]_vars

\* C22: while catch-up awaits the processing of an event, no submission
\* attempt of an earlier event of the scan is pending, resolved but not
\* yet handled, or scheduled on a timer.
C22_EarlierEventsSettled ==
  mainPc = "await"
  => \A i \in 1..Len(cu.allEvents) : i < cu.idx => procs[cu.allEvents[i]].sub = "none"

\* C23: catch-up scans from the watermark in memory plus one when that
\* watermark is set (not 0), and from the configured deployment block when
\* it is unset, up to the height that getBlockNumber returns; when that
\* height is below the first block of the range, catch-up returns at once:
\* no query is issued, no processing starts, the store is unchanged in
\* memory and on file.
C23_RangeAndNoOp ==
  /\ [][(mainPc = "down" /\ mainPc' # "down")
          => cu'.fromBlock = IF store'.lastProcessedBlock # 0
                             THEN store'.lastProcessedBlock + 1
                             ELSE cfg.contractDeploymentBlock]_vars
  /\ [][(/\ mainPc = "getBlockNumber" /\ mainPc' # "getBlockNumber" /\ NotCrash
          /\ <<0, "error during catch-up">> \notin out')
          => IF height < cu.fromBlock
             THEN /\ mainPc' = "live"
                  /\ cu'.eventsClient = <<>> /\ cu'.allEvents = <<>>
                  /\ procs' = procs
                  /\ store' = store /\ file' = file
             ELSE /\ mainPc' = "queryClient"
                  /\ cu'.fromBlock = cu.fromBlock /\ cu'.latestBlock = height
                  /\ store' = store /\ file' = file]_vars

\* catch-up has returned at once: the watermark is unset and the ledger
\* has not reached the configured deployment block
C23_Witness ==
  /\ mainPc = "live"
  /\ store.lastProcessedBlock = 0 /\ cfg.contractDeploymentBlock > height
  /\ file = boot

\* C24: the listeners are registered only when catchUpPastEvents has
\* returned: no event is queued for a callback and no callback runs before
\* that, and while catch-up runs a processing starts only for the current
\* event of the scan; the listeners are registered on each of the three
\* ways catch-up returns (nothing to scan, scan complete, an RPC call that
\* failed); a failed RPC call of catch-up (the only step of these
\* positions that prints) always ends in the registration, with the store
\* left as it was, so the watermark is not advanced to the end of the
\* range.
C24_SubscribeAfterCatchUp ==
  /\ [](mainPc # "live" => liveQ = {})
  /\ [][\A e \in EventIds :
          (mainPc # "live" /\ procs[e].pc = "idle" /\ procs'[e].pc # "idle")
          => /\ mainPc = "loop" /\ mainPc' = "await"
             /\ cu.idx <= Len(cu.allEvents) /\ cu.allEvents[cu.idx] = e]_vars
  /\ [][(mainPc # "live" /\ mainPc' = "live")
          => \/ mainPc = "getBlockNumber" /\ out' = {} /\ height < cu.fromBlock
             \/ mainPc = "loop" /\ cu.idx > Len(cu.allEvents) /\ out' = {<<0, "catch-up complete">>}
             \/ /\ mainPc \in {"getBlockNumber", "queryClient", "queryAgent"}
                /\ out' = {<<0, "error during catch-up">>}]_vars
  /\ [][(mainPc \in {"getBlockNumber", "queryClient", "queryAgent"} /\ out' # {})
          => mainPc' = "live" /\ out' = {<<0, "error during catch-up">>}]_vars
  /\ [][(<<0, "error during catch-up">> \in out')
          => mainPc' = "live" /\ store' = store /\ file' = file]_vars

\* an event query of catch-up has just failed: the listeners are
\* registered and the persisted watermark is below the ledger height
C24_Witness ==
  /\ mainPc = "live" /\ out = {<<0, "error during catch-up">>}
  /\ file.lastProcessedBlock < height /\ store.lastProcessedBlock < height
  /\ Len(log) >= 1

\* C25: for a task whose submission the ledger has accepted (state
\* SUBMITTED) and whose id is not in the ProcessedSet (the mark was lost in
\* a crash), a delivery passes the idempotency check and calls getTask, and
\* when getTask returns the attempt ends as skipped at the validation gate:
\* no handler, no submitTask, the store unchanged in memory and on file.
LostMark(t) == task[t].state = SUBMITTED /\ ~InSet(store.processedTaskIds, t)

C25_StaleEventGuard ==
  [][\A e \in EventIds :
       /\ (Known(e) /\ Delivery(e) /\ LostMark(TaskOf(e)))
          => procs'[e].pc = "getTask" /\ out' = {} /\ store' = store /\ file' = file
       /\ (/\ Known(e) /\ procs[e].pc = "getTask" /\ procs'[e].pc # "getTask" /\ NotCrash
           /\ <<e, "unexpected failure">> \notin out'
           /\ LostMark(TaskOf(e)))
          => /\ procs'[e].pc \in {"idle", "returned"}
             /\ procs'[e].sub = "none" /\ procs'[e].attempt = 0
             /\ out' = {<<e, "not in ASSIGNED state">>}
             /\ e \in handed'
             /\ store' = store /\ file' = file]_vars

\* after a crash that lost the mark (the task is SUBMITTED on the ledger,
\* its id is not on file, no submit chain of the running process exists),
\* an attempt for the task has just ended at the validation gate
C25_Witness ==
  \E e \in EventIds :
    /\ Known(e) /\ <<e, "not in ASSIGNED state">> \in out
    /\ task[TaskOf(e)].state = SUBMITTED
    /\ ~InSet(file.processedTaskIds, TaskOf(e)) /\ ~InSet(store.processedTaskIds, TaskOf(e))
    /\ \A d \in EventIds : procs[d].sub = "none"

\* C26: no step taken while the listeners are registered, a live delivery
\* and every step of its processing included, changes lastProcessedBlock in
\* memory or on file; an event delivered live lies above the watermark on
\* file, so the scan of the next start, which covers every block above the
\* watermark it loaded up to the height it read, holds that event; and a
\* scanned event whose task id was on file at the start ends at the
\* idempotency check with nothing written.
C26_LiveKeepsWatermark ==
  /\ [][(mainPc = "live" /\ mainPc' = "live")
        => /\ store'.lastProcessedBlock = store.lastProcessedBlock
           /\ file'.lastProcessedBlock = file.lastProcessedBlock]_vars
  /\ [][\A e \in EventIds :
         (mainPc = "live" /\ e \in liveQ /\ e \notin liveQ' /\ NotCrash)
         => /\ log[e].blockNumber > file.lastProcessedBlock
            /\ log[e].blockNumber > store.lastProcessedBlock
            /\ log[e].blockNumber >= cfg.contractDeploymentBlock]_vars
  /\ [](InScan =>
          \A e \in 1..Len(log) :
            (log[e].blockNumber > boot.lastProcessedBlock /\ log[e].blockNumber <= cu.latestBlock)
            => e \in Range(cu.allEvents))
  /\ [][\A e \in EventIds :
         (/\ mainPc = "loop" /\ mainPc' = "await" /\ cu.idx <= Len(cu.allEvents)
          /\ cu.allEvents[cu.idx] = e
          /\ boot.kind = "json" /\ InSet(boot.processedTaskIds, TaskOf(e)))
         => /\ procs'[e].pc = "returned"
            /\ out' = {<<e, "already processed">>}
            /\ store' = store /\ file' = file]_vars

\* a live delivery has just been completed and recorded: its task id is on
\* file and the watermark on file is still below the event's block
C26_Witness ==
  \E e \in EventIds :
    /\ Known(e) /\ mainPc = "live" /\ <<e, "recorded as processed">> \in out
    /\ InSet(file.processedTaskIds, TaskOf(e))
    /\ file.lastProcessedBlock < log[e].blockNumber
    /\ store.lastProcessedBlock < log[e].blockNumber

\* C27: in every reachable state the list processedTaskIds on file holds no
\* task id twice.
C27_NoDuplicateIds ==
  \A i, j \in 1..Len(file.processedTaskIds) :
    i # j => file.processedTaskIds[i] # file.processedTaskIds[j]

\* C28: when the balance read of the pre-check gives zero, the action fails
\* with "No tokens available to withdraw." and withdrawClientTokens is never
\* called on the contract; when the balance read rejects, the action goes on
\* to the withdrawal (it calls withdrawClientTokens if the contract has it);
\* when PRIVATE_KEY or PUBLIC_KEY is not set, it fails before any ledger call.
ReadZero == wd.readOutcome \in {"0n", "0"}
TxSent == \E i \in 1..Len(wd.calls) : wd.calls[i] = "withdrawClientTokens"
WentOn ==
  IF wd.hasWithdraw THEN TxSent /\ wd.error \notin {NoTokensMsg, NoKeyMsg, NoSignerMsg, NetworkError, RevertNoTokens}
  ELSE wd.pc = "failed" /\ wd.error = NoFunctionMsg

C28_WithdrawPreCheck ==
  /\ ReadZero => wd.pc = "failed" /\ wd.error = NoTokensMsg /\ ~TxSent
  /\ wd.readOutcome \in {NetworkError, RevertNoTokens} => WentOn
  /\ (wd.pc # "idle" /\ (~wd.PRIVATE_KEY \/ ~wd.PUBLIC_KEY))
     => wd.pc = "failed" /\ wd.error = NoKeyMsg /\ wd.calls = <<>>

\* C28 (amended): as above, except that the action goes on to the withdrawal
\* after a rejected balance read only when the message of the error does not
\* contain "No tokens available"; an error whose message contains that text
\* is thrown again and ends the action with no transaction, like a balance
\* of zero.  A read that resolves with a positive balance goes on as well.
C28_WithdrawPreCheckByMessage ==
  /\ ReadZero => wd.pc = "failed" /\ wd.error = NoTokensMsg /\ ~TxSent
  /\ wd.readOutcome = NetworkError => WentOn
  /\ wd.readOutcome = RevertNoTokens => wd.pc = "failed" /\ wd.error = RevertNoTokens /\ ~TxSent
  /\ wd.readOutcome \in {"5n", "5"} => WentOn
  /\ (wd.pc # "idle" /\ (~wd.PRIVATE_KEY \/ ~wd.PUBLIC_KEY))
     => wd.pc = "failed" /\ wd.error = NoKeyMsg /\ wd.calls = <<>>

\* the balance read was rejected with a network error and the withdrawal
\* transaction was sent and confirmed
C28_Witness ==
  /\ wd.readOutcome = NetworkError /\ wd.pc = "done"
  /\ wd.calls = <<"getBalance", "withdrawClientTokens", "wait">>

====
